---- MODULE Spec2Model ----
(***************************************************************************)
(* A model of BadASDLParserGenerator: the node model, traversal library,   *)
(* visitor / transformer and location utilities of src/ast_basis.py, and   *)
(* the schema parser and type generator of src/ast_classgen.py.            *)
(*                                                                         *)
(* A heap maps node ids (1..n) to node objects.  A node object carries its *)
(* class name, its declared _attribs and _fields, the instance values that *)
(* are set (vals; a name outside DOMAIN vals raises AttributeError on      *)
(* getattr) and the four location coordinates.                             *)
(***************************************************************************)
EXTENDS Integers, Sequences, FiniteSets, TLC

VARIABLES
    heap,       \* node id -> node object (the tree the caller owns)
    heap0,      \* the heap as it was when the operation was called
    arg,        \* the node the running operation was called on
    pc,         \* position of the running operation
    todo,       \* walk: the deque
    out,        \* walk: the nodes yielded so far; iter_child_nodes: its result
    stack,      \* _fix / NodeVisitor: the call stack
    log,        \* NodeVisitor: the handler calls made, in order
    ret,        \* the value returned (or the exception raised)
    visitor,    \* the visitor object: its registered handlers
    delta,      \* increment_lineno: n
    source,     \* get_source_segment: the source text, a sequence of characters
    padded,     \* get_source_segment: padded
    parser      \* ParseAsdl / AsdlToPy: mod_name, mod_raw, mod_body, defined

\* The arguments of the running operation other than the node.
input == <<visitor, delta, source, padded>>

vars == <<heap, heap0, arg, pc, todo, out, stack, log, ret, input, parser>>

(***************************************************************************)
(* Bounds of the model.                                                    *)
(***************************************************************************)
MaxNodes == 5
MaxListLen == 2
MaxLocNodes == 3
MaxDelta == 3
MaxVisitNodes == 3
MaxCoord == 2
MaxSrcLen == 3
MaxTypeDefs == 3

(***************************************************************************)
(* The node model.                                                         *)
(***************************************************************************)
\* An unset coordinate (lineno: int | None = None).
None == -1

\* Values a field or attribute can hold: a scalar, a single node, or a list
\* whose elements are node ids (>= 1) or the scalar 0.
Scalar == [k |-> "scalar", items |-> <<>>]
NodeVal(n) == [k |-> "node", items |-> <<n>>]
ListVal(s) == [k |-> "list", items |-> s]

\* isinstance(item, AST) for a list element
isinstance_AST(item) == item >= 1

\* class AST: the defaults of a node that sets nothing
AST(cls, attribs, fields, vals) ==
    [cls |-> cls, _attribs |-> attribs, _fields |-> fields, vals |-> vals,
     lineno |-> None, col_offset |-> None,
     end_lineno |-> None, end_col_offset |-> None]

(***************************************************************************)
(* The traversal library.                                                  *)
(***************************************************************************)
\* The names every node has a value for: the class AST gives them defaults.
ClassAttrs == {"_fields", "_attribs", "symref", "lineno", "col_offset",
               "end_lineno", "end_col_offset"}

\* The (name, value) pairs of the names in `names` that have a value; a
\* getattr that raises AttributeError is passed over.
RECURSIVE IterNames(_, _)
IterNames(node, names) ==
    IF names = <<>> THEN <<>>
    ELSE LET name == Head(names) IN
         (IF name \in DOMAIN node.vals
          THEN <<  <<name, node.vals[name]>>  >>
          ELSE IF name \in ClassAttrs THEN <<  <<name, Scalar>>  >>
          ELSE <<>>) \o IterNames(node, Tail(names))

iter_fields(node) == IterNames(node, node._fields)

iter_attribs(node) == IterNames(node, node._attribs)

\* The nodes one value contributes to iter_child_nodes.
ValueChildren(v) ==
    IF v.k = "node" THEN v.items
    ELSE IF v.k = "list" THEN SelectSeq(v.items, isinstance_AST)
    ELSE <<>>

RECURSIVE PairsChildren(_)
PairsChildren(pairs) ==
    IF pairs = <<>> THEN <<>>
    ELSE ValueChildren(Head(pairs)[2]) \o PairsChildren(Tail(pairs))

iter_child_nodes_fields_first(node) ==
    PairsChildren(iter_fields(node)) \o PairsChildren(iter_attribs(node))

iter_child_nodes(node) ==
    PairsChildren(iter_attribs(node)) \o PairsChildren(iter_fields(node))

(***************************************************************************)
(* Input trees.  Node 1 is the root; node i > 1 hangs under parent[i] < i  *)
(* in one of three places: the attribute ctx (a node), the field value (a  *)
(* node) or the field body (a list); the attribute decos has no value.     *)
(***************************************************************************)
TreeAttribs == <<"ctx", "decos">>
TreeFields == <<"value", "body">>
SingleSlots == {"ctx", "value"}
ListSlots == {"body"}
SlotNames == SingleSlots \cup ListSlots

RECURSIVE SeqDesc(_)
SeqDesc(S) ==
    IF S = {} THEN <<>>
    ELSE LET m == CHOOSE x \in S : \A y \in S : y <= x
         IN <<m>> \o SeqDesc(S \ {m})

Parents(n) == {p \in [2..n -> 1..n] : \A i \in 2..n : p[i] < i}
Slots(n) == [2..n -> SlotNames]
KidsIn(n, parent, slot, i, s) == {j \in 2..n : parent[j] = i /\ slot[j] = s}
ValidTree(n, parent, slot) ==
    \A i \in 1..n : \A s \in SingleSlots :
        Cardinality(KidsIn(n, parent, slot, i, s)) <= 1

\* The values of node i: an empty ctx has no value, an empty value holds a
\* scalar, an empty body is the empty list; a non-empty body starts with a
\* scalar element and lists its nodes by descending id.
TreeVals(n, parent, slot, i) ==
    LET kids(s) == KidsIn(n, parent, slot, i, s)
        has == {s \in SlotNames : s \in {"value", "body"} \/ kids(s) # {}}
    IN [s \in has |->
          IF s \in SingleSlots
          THEN (IF kids(s) = {} THEN Scalar
                ELSE NodeVal(CHOOSE j \in kids(s) : TRUE))
          ELSE (IF kids(s) = {} THEN ListVal(<<>>)
                ELSE ListVal(<<0>> \o SeqDesc(kids(s))))]

TreeHeap(n, parent, slot) ==
    [i \in 1..n |-> AST("Expr", TreeAttribs, TreeFields,
                        TreeVals(n, parent, slot, i))]

Trees(n) ==
    {TreeHeap(n, p, s) : <<p, s>> \in
        {ps \in Parents(n) \X Slots(n) : ValidTree(n, ps[1], ps[2])}}

\* Tree structure read off a heap.
Nodes(h) == DOMAIN h
ParentOf(h, n) == CHOOSE p \in Nodes(h) :
    \E i \in 1..Len(iter_child_nodes(h[p])) : iter_child_nodes(h[p])[i] = n
HasParent(h, n) == \E p \in Nodes(h) :
    \E i \in 1..Len(iter_child_nodes(h[p])) : iter_child_nodes(h[p])[i] = n
RECURSIVE Depth(_, _, _)
Depth(h, top, n) == IF n = top \/ ~HasParent(h, n) THEN 0
                    ELSE 1 + Depth(h, top, ParentOf(h, n))
RECURSIVE IsUnder(_, _, _)
IsUnder(h, top, n) ==
    n = top \/ (HasParent(h, n) /\ IsUnder(h, top, ParentOf(h, n)))
Subtree(h, top) == {n \in Nodes(h) : IsUnder(h, top, n)}
Range(s) == {s[i] : i \in 1..Len(s)}
IndexOf(s, x) == CHOOSE i \in 1..Len(s) : s[i] = x

(***************************************************************************)
(* walk(node): breadth first over a deque.                                 *)
(***************************************************************************)
NoRet == [k |-> "none", v |-> <<>>]
NoVisitor == [handlers |-> {}, recurse |-> FALSE, returns |-> "same"]
NoInput == visitor = NoVisitor /\ delta = 0 /\ source = <<>> /\ padded = FALSE
NoParser == [mod_name |-> <<>>, mod_raw |-> <<>>, mod_body |-> <<>>,
             defined |-> {}, classes |-> <<>>]
Idle == /\ todo = <<>> /\ out = <<>> /\ stack = <<>> /\ log = <<>>
        /\ ret = NoRet /\ arg = 1 /\ parser = NoParser

InitWalk ==
    /\ \E n \in 1..MaxNodes : heap \in Trees(n)
    /\ heap0 = heap
    /\ pc = "idle"
    /\ Idle
    /\ NoInput

\* todo = deque([node])
WalkCall ==
    /\ pc = "idle"
    /\ todo' = <<arg>>
    /\ pc' = "walk"
    /\ UNCHANGED <<heap, heap0, arg, out, stack, log, ret, input, parser>>

popleft_lifo(q) == [node |-> q[Len(q)], rest |-> SubSeq(q, 1, Len(q) - 1)]

popleft(q) == [node |-> Head(q), rest |-> Tail(q)]

\* node = todo.popleft(); todo.extend(iter_child_nodes(node)); yield node
WalkStep(q, h) ==
    LET p == popleft(q)
    IN [node |-> p.node, todo |-> p.rest \o iter_child_nodes(h[p.node])]

WalkNext ==
    /\ pc = "walk"
    /\ todo # <<>>
    /\ LET w == WalkStep(todo, heap) IN
        /\ todo' = w.todo
        /\ out' = Append(out, w.node)
    /\ UNCHANGED <<heap, heap0, arg, pc, stack, log, ret, input, parser>>

\* The deque is empty: the generator is exhausted.
WalkStop ==
    /\ pc = "walk"
    /\ todo = <<>>
    /\ pc' = "done"
    /\ UNCHANGED <<heap, heap0, arg, todo, out, stack, log, ret, input, parser>>

NextWalk == WalkCall \/ WalkNext \/ WalkStop

SpecWalk == InitWalk /\ [][NextWalk]_vars /\ WF_vars(NextWalk)

\* C2: walk(root) on a finite tree terminates, and yields root first and then
\* every descendant exactly once breadth first: depths never decrease along
\* the output, and two nodes of one depth come in the order of their parents,
\* siblings in iter_child_nodes order.
WalkBFS ==
    /\ Len(out) >= 1 /\ out[1] = arg
    /\ Range(out) = Subtree(heap, arg)
    /\ Len(out) = Cardinality(Subtree(heap, arg))
    /\ \A i, j \in 1..Len(out) : i < j =>
        /\ Depth(heap, arg, out[i]) <= Depth(heap, arg, out[j])
        /\ (Depth(heap, arg, out[i]) = Depth(heap, arg, out[j]) /\ out[i] # arg) =>
            LET pi == ParentOf(heap, out[i])
                pj == ParentOf(heap, out[j])
                kids == iter_child_nodes(heap[pi])
            IN IF pi = pj THEN IndexOf(kids, out[i]) < IndexOf(kids, out[j])
               ELSE IndexOf(out, pi) < IndexOf(out, pj)

C2_WalkBreadthFirst == <>(pc = "done") /\ [](pc = "done" => WalkBFS)

\* The example of the claim: a root with two children, each with one child.
TwoByTwo(h) ==
    /\ Nodes(h) = 1..5
    /\ Len(iter_child_nodes(h[1])) = 2
    /\ \A i \in 1..2 : Len(iter_child_nodes(h[iter_child_nodes(h[1])[i]])) = 1

C2_Witness == pc = "done" /\ arg = 1 /\ TwoByTwo(heap) /\ Len(out) = 5

(***************************************************************************)
(* iter_child_nodes(node) on one node whose two attributes and two fields  *)
(* each hold nothing, a scalar, a node, or a list of nodes and scalars.    *)
(***************************************************************************)
Patterns == UNION {[1..n -> {0, 1}] : n \in 0..MaxListLen}
ValueShapes ==
    {[k |-> "absent", pat |-> <<>>], [k |-> "scalar", pat |-> <<>>],
     [k |-> "node", pat |-> <<1>>]}
    \cup {[k |-> "list", pat |-> p] : p \in Patterns}

RECURSIVE Count1(_)
Count1(pat) == IF pat = <<>> THEN 0 ELSE Head(pat) + Count1(Tail(pat))

\* The items of a value of shape pat: its nodes get the ids above base, the
\* last node of a list the lowest.
Fill(pat, base) ==
    [j \in 1..Len(pat) |->
        IF pat[j] = 1 THEN base + Count1(SubSeq(pat, j, Len(pat))) ELSE 0]

\* Ids are handed out to body, value, decos, ctx in that order.
ShapeBase(sh, name) ==
    1 + (IF name \in {"value", "decos", "ctx"} THEN Count1(sh["body"].pat) ELSE 0)
      + (IF name \in {"decos", "ctx"} THEN Count1(sh["value"].pat) ELSE 0)
      + (IF name = "ctx" THEN Count1(sh["decos"].pat) ELSE 0)

ShapeHeap(sh) ==
    LET has == {s \in DOMAIN sh : sh[s].k # "absent"}
        total == Count1(sh["body"].pat) + Count1(sh["value"].pat)
                 + Count1(sh["decos"].pat) + Count1(sh["ctx"].pat)
        vals == [s \in has |->
                    [k |-> sh[s].k,
                     items |-> IF sh[s].k = "scalar" THEN <<>>
                               ELSE Fill(sh[s].pat, ShapeBase(sh, s))]]
    IN [i \in 1..(1 + total) |->
            IF i = 1 THEN AST("Expr", TreeAttribs, TreeFields, vals)
            ELSE AST("Pass", <<>>, <<>>, <<>>)]

InitChild ==
    /\ \E sh \in [{"ctx", "decos", "value", "body"} -> ValueShapes] :
           heap = ShapeHeap(sh)
    /\ heap0 = heap
    /\ pc = "idle"
    /\ Idle
    /\ NoInput

IterChildNodes ==
    /\ pc = "idle"
    /\ out' = iter_child_nodes(heap[arg])
    /\ pc' = "children"
    /\ UNCHANGED <<heap, heap0, arg, todo, stack, log, ret, input, parser>>

IterFields ==
    /\ pc = "idle"
    /\ out' = iter_fields(heap[arg])
    /\ pc' = "fields"
    /\ UNCHANGED <<heap, heap0, arg, todo, stack, log, ret, input, parser>>

IterAttribs ==
    /\ pc = "idle"
    /\ out' = iter_attribs(heap[arg])
    /\ pc' = "attribs"
    /\ UNCHANGED <<heap, heap0, arg, todo, stack, log, ret, input, parser>>

NextChild == IterChildNodes \/ IterFields \/ IterAttribs

SpecChild == InitChild /\ [][NextChild]_vars

\* Where the nodes held by node n sit: <<1, i, j>> is element j of the value
\* of the i-th declared attribute, <<2, i, j>> of the i-th declared field.
Occurrences(node) ==
    LET names(sec) == IF sec = 1 THEN node._attribs ELSE node._fields
    IN {o \in {1, 2} \X (1..(Len(node._attribs) + Len(node._fields)))
                      \X (1..(MaxListLen + 1)) :
          /\ o[2] <= Len(names(o[1]))
          /\ names(o[1])[o[2]] \in DOMAIN node.vals
          /\ LET v == node.vals[names(o[1])[o[2]]] IN
               /\ v.k \in {"node", "list"}
               /\ o[3] <= Len(v.items)
               /\ v.items[o[3]] >= 1}
NodeAt(node, o) ==
    node.vals[(IF o[1] = 1 THEN node._attribs ELSE node._fields)[o[2]]].items[o[3]]
PosOf(node, n) == CHOOSE o \in Occurrences(node) : NodeAt(node, o) = n
LexLess(a, b) ==
    \/ a[1] < b[1]
    \/ a[1] = b[1] /\ a[2] < b[2]
    \/ a[1] = b[1] /\ a[2] = b[2] /\ a[3] < b[3]

\* C10: iter_child_nodes yields exactly the nodes held by the attributes that
\* have a value (in attribute order) and then by the fields that have a value
\* (in field order), a list's nodes in list order; scalars, scalar elements
\* and names without a value yield nothing.
C10_ChildOrder ==
    pc = "children" =>
        LET node == heap[arg] IN
        /\ Range(out) = {NodeAt(node, o) : o \in Occurrences(node)}
        /\ Len(out) = Cardinality(Occurrences(node))
        /\ \A i, j \in 1..Len(out) :
              i < j => LexLess(PosOf(node, out[i]), PosOf(node, out[j]))

\* A node under an attribute list and under a field, next to a scalar
\* element and a name without a value.
C10_Witness ==
    /\ pc = "children"
    /\ "ctx" \notin DOMAIN heap[arg].vals
    /\ "decos" \in DOMAIN heap[arg].vals
    /\ heap[arg].vals["decos"].k = "list"
    /\ Len(heap[arg].vals["decos"].items) = 2
    /\ heap[arg].vals["decos"].items[1] = 0
    /\ "value" \in DOMAIN heap[arg].vals
    /\ heap[arg].vals["value"].k = "node"
    /\ Len(out) = 2

(***************************************************************************)
(* Location utilities on small trees.  Node i > 1 hangs in the body of its *)
(* parent when i is even and in its ctx when i is odd.  Every node sets    *)
(* one of six subsets of its coordinates, to values of its own.            *)
(***************************************************************************)
Coords == {"lineno", "col_offset", "end_lineno", "end_col_offset"}
LocMasks ==
    {{}, Coords, {"lineno"}, {"col_offset", "end_lineno"}, {"end_col_offset"},
     {"lineno", "col_offset", "end_lineno"}}
LocTrees(n) ==
    {TreeHeap(n, p, [i \in 2..n |-> IF i % 2 = 0 THEN "body" ELSE "ctx"]) :
        p \in {q \in Parents(n) :
                ValidTree(n, q, [i \in 2..n |-> IF i % 2 = 0 THEN "body" ELSE "ctx"])}}
WithLoc(h, mask) ==
    [i \in DOMAIN h |->
        [h[i] EXCEPT
            !.lineno = IF "lineno" \in mask[i] THEN i + 1 ELSE None,
            !.col_offset = IF "col_offset" \in mask[i] THEN i + 10 ELSE None,
            !.end_lineno = IF "end_lineno" \in mask[i] THEN i + 2 ELSE None,
            !.end_col_offset = IF "end_col_offset" \in mask[i] THEN i + 20 ELSE None]]
LocHeaps ==
    UNION {{WithLoc(h, m) : <<h, m>> \in LocTrees(n) \X [1..n -> LocMasks]} :
            n \in 1..MaxLocNodes}

\* Everything of a node but its line numbers / but its coordinates.
SameButLines(a, b) ==
    a = [b EXCEPT !.lineno = a.lineno, !.end_lineno = a.end_lineno]

(***************************************************************************)
(* increment_lineno(node, n)                                               *)
(***************************************************************************)
InitInc ==
    /\ heap \in LocHeaps
    /\ heap0 = heap
    /\ pc = "idle"
    /\ Idle
    /\ visitor = NoVisitor /\ source = <<>> /\ padded = FALSE
    /\ delta \in 0..MaxDelta

\* for child in walk(node): walk's deque is set up
IncCall ==
    /\ pc = "idle"
    /\ todo' = <<arg>>
    /\ pc' = "inc"
    /\ UNCHANGED <<heap, heap0, arg, out, stack, log, ret, input, parser>>

\* The body of the loop, on one node.
ShiftLines_columns_too(node, n) ==
    [node EXCEPT
        !.lineno = IF node.lineno # None THEN node.lineno + n ELSE None,
        !.end_lineno = IF node.end_lineno # None THEN node.end_lineno + n ELSE None,
        !.col_offset = IF node.col_offset # None THEN node.col_offset + n ELSE None]

ShiftLines(node, n) ==
    [node EXCEPT
        !.lineno = IF node.lineno # None THEN node.lineno + n ELSE None,
        !.end_lineno = IF node.end_lineno # None THEN node.end_lineno + n ELSE None]

\* walk yields the next node and the body runs on it
IncLoop ==
    /\ pc = "inc"
    /\ todo # <<>>
    /\ LET w == WalkStep(todo, heap) IN
        /\ todo' = w.todo
        /\ out' = Append(out, w.node)
        /\ heap' = [heap EXCEPT ![w.node] = ShiftLines(heap[w.node], delta)]
    /\ UNCHANGED <<heap0, arg, pc, stack, log, ret, input, parser>>

\* walk is exhausted: return node
IncReturn ==
    /\ pc = "inc"
    /\ todo = <<>>
    /\ pc' = "done"
    /\ ret' = [k |-> "node", v |-> <<arg>>]
    /\ UNCHANGED <<heap, heap0, arg, todo, out, stack, log, input, parser>>

NextInc == IncCall \/ IncLoop \/ IncReturn

SpecInc == InitInc /\ [][NextInc]_vars

\* C6: after increment_lineno(root, delta) every node's lineno and end_lineno
\* are the original plus delta if they were set and unset otherwise, nothing
\* else of any node has changed, and delta = 0 leaves the tree identical.
C6_IncrementLineno ==
    pc = "done" =>
        /\ \A i \in Nodes(heap) :
            /\ heap[i].lineno =
                 IF heap0[i].lineno = None THEN None ELSE heap0[i].lineno + delta
            /\ heap[i].end_lineno =
                 IF heap0[i].end_lineno = None THEN None
                 ELSE heap0[i].end_lineno + delta
            /\ heap[i].col_offset = heap0[i].col_offset
            /\ heap[i].end_col_offset = heap0[i].end_col_offset
            /\ SameButLines(heap[i], heap0[i])
        /\ Nodes(heap) = Nodes(heap0)
        /\ (delta = 0 => heap = heap0)
        /\ ret = [k |-> "node", v |-> <<arg>>]

\* A three-node tree shifted by 3 in which a grandchild has only its start
\* line set.
C6_Witness ==
    /\ pc = "done" /\ delta = 3
    /\ \E i \in Nodes(heap) :
        /\ Depth(heap, arg, i) = 2
        /\ heap0[i].lineno # None /\ heap0[i].end_lineno = None
        /\ heap0[i].col_offset = None
        /\ heap[i].lineno = heap0[i].lineno + 3

(***************************************************************************)
(* fix_missing_locations(node): the recursion of _fix over a call stack.   *)
(* A frame holds the four values _fix passes on and the children it has    *)
(* still to call.                                                          *)
(***************************************************************************)
InitFix ==
    /\ heap \in LocHeaps
    /\ heap0 = heap
    /\ pc = "idle"
    /\ Idle
    /\ NoInput

\* The four if/else of _fix on one node: the node as filled, and the values
\* handed to its children.
FixNode_start_from_end(node, lineno, col_offset, end_lineno, end_col_offset) ==
    LET ln == IF node.lineno = None THEN lineno ELSE node.lineno
        co == IF node.col_offset = None THEN col_offset ELSE node.col_offset
        el == IF node.end_lineno = None THEN ln ELSE node.end_lineno
        ec == IF node.end_col_offset = None THEN end_col_offset
              ELSE node.end_col_offset
    IN [node EXCEPT !.lineno = ln, !.col_offset = co,
                    !.end_lineno = el, !.end_col_offset = ec]

FixNode(node, lineno, col_offset, end_lineno, end_col_offset) ==
    LET ln == IF node.lineno = None THEN lineno ELSE node.lineno
        co == IF node.col_offset = None THEN col_offset ELSE node.col_offset
        el == IF node.end_lineno = None THEN end_lineno ELSE node.end_lineno
        ec == IF node.end_col_offset = None THEN end_col_offset
              ELSE node.end_col_offset
    IN [node EXCEPT !.lineno = ln, !.col_offset = co,
                    !.end_lineno = el, !.end_col_offset = ec]

\* Entering _fix(node, ...): the node is filled; its frame passes the node's
\* coordinates on to iter_child_nodes(node).
FixEnter(h, stk, n, lineno, col_offset, end_lineno, end_col_offset) ==
    LET filled == FixNode(h[n], lineno, col_offset, end_lineno, end_col_offset)
    IN [heap |-> [h EXCEPT ![n] = filled],
        stack |-> Append(stk, [node |-> n,
                               lineno |-> filled.lineno,
                               col_offset |-> filled.col_offset,
                               end_lineno |-> filled.end_lineno,
                               end_col_offset |-> filled.end_col_offset,
                               kids |-> iter_child_nodes(filled)])]

\* _fix(node, 1, 0, 1, 0)
FixCall ==
    /\ pc = "idle"
    /\ LET e == FixEnter(heap, <<>>, arg, 1, 0, 1, 0) IN
        /\ heap' = e.heap
        /\ stack' = e.stack
    /\ pc' = "fix"
    /\ UNCHANGED <<heap0, arg, todo, out, log, ret, input, parser>>

\* for child in iter_child_nodes(node): _fix(child, ...)
FixChild ==
    /\ pc = "fix"
    /\ stack # <<>>
    /\ LET top == stack[Len(stack)] IN
        /\ top.kids # <<>>
        /\ LET rest == [stack EXCEPT ![Len(stack)].kids = Tail(top.kids)]
               e == FixEnter(heap, rest, Head(top.kids), top.lineno,
                             top.col_offset, top.end_lineno, top.end_col_offset)
           IN /\ heap' = e.heap
              /\ stack' = e.stack
    /\ UNCHANGED <<heap0, arg, pc, todo, out, log, ret, input, parser>>

\* The loop of a _fix is over: it returns to its caller.
FixReturn ==
    /\ pc = "fix"
    /\ stack # <<>>
    /\ stack[Len(stack)].kids = <<>>
    /\ stack' = SubSeq(stack, 1, Len(stack) - 1)
    /\ UNCHANGED <<heap, heap0, arg, pc, todo, out, log, ret, input, parser>>

\* return node
FixDone ==
    /\ pc = "fix"
    /\ stack = <<>>
    /\ pc' = "done"
    /\ ret' = [k |-> "node", v |-> <<arg>>]
    /\ UNCHANGED <<heap, heap0, arg, todo, out, stack, log, input, parser>>

NextFix == FixCall \/ FixChild \/ FixReturn \/ FixDone

SpecFix == InitFix /\ [][NextFix]_vars

\* What coordinate c of node n is expected to be: its own original value, or
\* that of the nearest ancestor that had it set, or the default.
DefaultCoord(c) == IF c \in {"lineno", "end_lineno"} THEN 1 ELSE 0
RECURSIVE NearestSet(_, _, _)
NearestSet(h, n, c) ==
    IF h[n][c] # None THEN h[n][c]
    ELSE IF HasParent(h, n) THEN NearestSet(h, ParentOf(h, n), c)
    ELSE DefaultCoord(c)

\* C5: after fix_missing_locations(root) every node has all four coordinates
\* set; a coordinate that was set is unchanged; one that was unset has the
\* original value of the same coordinate of the nearest ancestor that had it
\* set, or the default 1, 0, 1, 0; the coordinates are filled independently.
C5_FixMissingLocations ==
    pc = "done" =>
        /\ Nodes(heap) = Nodes(heap0)
        /\ \A i \in Nodes(heap) : \A c \in Coords :
            /\ heap[i][c] # None
            /\ heap0[i][c] # None => heap[i][c] = heap0[i][c]
            /\ heap[i][c] = NearestSet(heap0, i, c)
        /\ \A i \in Nodes(heap) :
            heap[i] = [heap0[i] EXCEPT !.lineno = heap[i].lineno,
                                       !.col_offset = heap[i].col_offset,
                                       !.end_lineno = heap[i].end_lineno,
                                       !.end_col_offset = heap[i].end_col_offset]

\* A grandchild that takes its start line from the root, its end line from
\* its parent and its end column from the default.
C5_Witness ==
    /\ pc = "done"
    /\ \E i \in Nodes(heap) :
        /\ Depth(heap0, arg, i) = 2
        /\ heap0[i].lineno = None /\ heap0[i].end_lineno = None
        /\ heap0[i].end_col_offset = None
        /\ heap0[ParentOf(heap0, i)].lineno = None
        /\ heap0[ParentOf(heap0, i)].end_lineno # None
        /\ heap0[ParentOf(heap0, i)].end_col_offset = None
        /\ heap0[arg].lineno # None
        /\ heap0[arg].end_col_offset = None
        /\ heap[i].lineno = heap0[arg].lineno
        /\ heap[i].end_lineno = heap0[ParentOf(heap0, i)].end_lineno
        /\ heap[i].end_col_offset = 0

(***************************************************************************)
(* get_source_segment(source, node, padded).  A text is a sequence of      *)
(* characters; the result is a text, None, or the exception raised.        *)
(***************************************************************************)
Min(a, b) == IF a < b THEN a ELSE b
Max(a, b) == IF a > b THEN a ELSE b

\* s[:k] and s[k:] of Python
PySliceTo(s, k) ==
    IF k >= 0 THEN SubSeq(s, 1, Min(k, Len(s)))
    ELSE SubSeq(s, 1, Max(Len(s) + k, 0))
PySliceFrom(s, k) ==
    IF k >= 0 THEN SubSeq(s, Min(k, Len(s)) + 1, Len(s))
    ELSE SubSeq(s, Max(Len(s) + k, 0) + 1, Len(s))

\* The position lines[i] names in a list of length len (0 when it raises
\* IndexError): Python counts a negative i from the end.
PyIndex(len, i) ==
    IF 0 <= i /\ i < len THEN i + 1
    ELSE IF i < 0 /\ -len <= i THEN len + i + 1
    ELSE 0

\* for c in source: ... (the loop that splits the text into lines)
RECURSIVE SplitLoop(_, _, _, _)
SplitLoop(src, lines, cur_line, end_lineno) ==
    IF src = <<>> THEN [lines |-> lines, cur_line |-> cur_line]
    ELSE IF Len(lines) = end_lineno THEN [lines |-> lines, cur_line |-> cur_line]
    ELSE IF Head(src) = "\n"
         THEN SplitLoop(Tail(src), Append(lines, cur_line), <<>>, end_lineno)
    ELSE SplitLoop(Tail(src), lines, Append(cur_line, Head(src)), end_lineno)

\* "\n".join(lines)
RECURSIVE Join(_)
Join(lines) ==
    IF lines = <<>> THEN <<>>
    ELSE IF Len(lines) = 1 THEN lines[1]
    ELSE lines[1] \o <<"\n">> \o Join(Tail(lines))

Str(text) == [k |-> "str", v |-> text]
RetNone == [k |-> "None", v |-> <<>>]
Raise(e) == [k |-> "raise", v |-> <<e>>]

\* lines[end_lineno-lineno][:end_col_offset+1]
EndSlice_exclusive(line, end_col_offset) == PySliceTo(line, end_col_offset)

EndSlice(line, end_col_offset) == PySliceTo(line, end_col_offset + 1)

get_source_segment(src, node, pad) ==
    IF None \in {node.lineno, node.col_offset, node.end_lineno, node.end_col_offset}
    THEN RetNone
    ELSE
    LET col_offset == IF pad THEN 0 ELSE node.col_offset
        loop == SplitLoop(src, <<>>, <<>>, node.end_lineno)
        lines1 == IF loop.cur_line # <<>> THEN Append(loop.lines, loop.cur_line)
                  ELSE loop.lines
        pops == Max(node.lineno - 1, 0)
        lines2 == SubSeq(lines1, pops + 1, Len(lines1))
        at == PyIndex(Len(lines2), node.end_lineno - node.lineno)
        lines3 == [lines2 EXCEPT ![at] = EndSlice(lines2[at], node.end_col_offset)]
        lines4 == [lines3 EXCEPT ![1] = PySliceFrom(lines3[1], col_offset)]
    IN  \* del c, with c never bound
        IF src = <<>> THEN Raise("UnboundLocalError")
        \* lines.pop(0) on an empty list
        ELSE IF pops > Len(lines1) THEN Raise("IndexError")
        ELSE IF at = 0 THEN Raise("IndexError")
        ELSE Str(Join(lines4))

SrcChars == {"a", "b", "\n"}
Example == <<"a", "b", "c", "\n", "d", "e", "f", "\n">>
Sources == UNION {[1..n -> SrcChars] : n \in 0..MaxSrcLen} \cup {Example}
CoordValues == {None} \cup 0..MaxCoord

InitSeg ==
    /\ \E ln, co, el, ec \in CoordValues :
        heap = <<[AST("Expr", <<>>, <<>>, <<>>) EXCEPT
                    !.lineno = ln, !.col_offset = co,
                    !.end_lineno = el, !.end_col_offset = ec]>>
    /\ heap0 = heap
    /\ pc = "idle"
    /\ Idle
    /\ visitor = NoVisitor /\ delta = 0
    /\ source \in Sources
    /\ padded \in BOOLEAN

GetSourceSegment ==
    /\ pc = "idle"
    /\ ret' = get_source_segment(source, heap[arg], padded)
    /\ pc' = "done"
    /\ UNCHANGED <<heap, heap0, arg, todo, out, stack, log, input, parser>>

\* copy_location(old_node, new_node), from the node onto a fresh node
CopyLocation ==
    /\ pc = "idle"
    /\ heap' = Append(heap, [AST("Pass", <<>>, <<>>, <<>>) EXCEPT
                                !.lineno = heap[arg].lineno,
                                !.col_offset = heap[arg].col_offset,
                                !.end_lineno = heap[arg].end_lineno,
                                !.end_col_offset = heap[arg].end_col_offset])
    /\ ret' = [k |-> "node", v |-> <<Len(heap) + 1>>]
    /\ pc' = "copied"
    /\ UNCHANGED <<heap0, arg, todo, out, stack, log, input, parser>>

NextSeg == GetSourceSegment \/ CopyLocation

SpecSeg == InitSeg /\ [][NextSeg]_vars

At(node, ln, co, el, ec) ==
    /\ node.lineno = ln /\ node.col_offset = co
    /\ node.end_lineno = el /\ node.end_col_offset = ec

\* C3 as stated: on "abc\ndef\n" the node (1,1)-(2,2) gives "bc\nde", and
\* None when end_lineno is unset.
C3_AsStated ==
    (pc = "done" /\ source = Example /\ ~padded) =>
        /\ At(heap[arg], 1, 1, 2, 2) => ret = Str(<<"b", "c", "\n", "d", "e">>)
        /\ At(heap[arg], 1, 1, None, 2) => ret = RetNone

\* C3 as amended: the end column is included, so on "abc\ndef\n" the node
\* (1,1)-(2,2) gives "bc\ndef"; with end_lineno unset the result is None.
C3_EndColumnIncluded ==
    (pc = "done" /\ source = Example /\ ~padded) =>
        /\ At(heap[arg], 1, 1, 2, 2) =>
             ret = Str(<<"b", "c", "\n", "d", "e", "f">>)
        /\ At(heap[arg], 1, 1, None, 2) => ret = RetNone

C3_Witness ==
    /\ pc = "done" /\ source = Example /\ ~padded
    /\ At(heap[arg], 1, 1, 2, 2)
    /\ ret.k = "str"

\* C4: no location operation ends in an error, whatever coordinates are
\* unset or outside the source text, the empty text included.
C4_NeverRaises == pc = "done" => ret.k \in {"str", "None"}

(***************************************************************************)
(* NodeVisitor.  A visitor object is the set of the visit_<name> methods   *)
(* it defines; such a method records its call and either returns at once   *)
(* or calls self.generic_visit(node) itself (recurse).  The nodes are of   *)
(* the classes Expr and Pass, constructors of the sum type stmt.           *)
(***************************************************************************)
Classes == {"Expr", "Pass"}
WithClasses(h, cls) == [i \in DOMAIN h |-> [h[i] EXCEPT !.cls = cls[i]]]
VisitHeaps ==
    UNION {{WithClasses(h, c) : <<h, c>> \in LocTrees(n) \X [1..n -> Classes]} :
            n \in 1..MaxVisitNodes}

InitVisit ==
    /\ heap \in VisitHeaps
    /\ heap0 = heap
    /\ pc = "idle"
    /\ Idle
    /\ delta = 0 /\ source = <<>> /\ padded = FALSE
    /\ \E hs \in SUBSET {"visit_Expr", "visit_stmt"}, r \in BOOLEAN :
        visitor = [handlers |-> hs, recurse |-> r, returns |-> "same"]

\* method = "visit_" + node.__class__.__name__
MethodName_or_base(node) ==
    IF "visit_" \o node.cls \in visitor.handlers THEN "visit_" \o node.cls
    ELSE "visit_stmt"

MethodName(node) == "visit_" \o node.cls

\* visit(node): getattr(self, method, self.generic_visit)(node), up to the
\* point where generic_visit starts its loop.
EnterVisit(stk, lg, n) ==
    LET method == MethodName(heap[n])
        frame == [node |-> n, kids |-> iter_child_nodes(heap[n])]
    IN IF method \in visitor.handlers
       THEN IF visitor.recurse
            THEN [stack |-> Append(stk, frame),
                  log |-> lg \o << <<method, n>>, <<"generic_visit", n>> >>]
            ELSE [stack |-> stk, log |-> Append(lg, <<method, n>>)]
       ELSE [stack |-> Append(stk, frame),
             log |-> Append(lg, <<"generic_visit", n>>)]

VisitCall ==
    /\ pc = "idle"
    /\ LET e == EnterVisit(<<>>, <<>>, arg) IN
        /\ stack' = e.stack
        /\ log' = e.log
    /\ pc' = "visit"
    /\ UNCHANGED <<heap, heap0, arg, todo, out, ret, input, parser>>

\* for child in iter_child_nodes(node): self.visit(child)
VisitChild ==
    /\ pc = "visit"
    /\ stack # <<>>
    /\ LET top == stack[Len(stack)] IN
        /\ top.kids # <<>>
        /\ LET rest == [stack EXCEPT ![Len(stack)].kids = Tail(top.kids)]
               e == EnterVisit(rest, log, Head(top.kids))
           IN /\ stack' = e.stack
              /\ log' = e.log
    /\ UNCHANGED <<heap, heap0, arg, pc, todo, out, ret, input, parser>>

\* return node (the caller discards it)
VisitReturn ==
    /\ pc = "visit"
    /\ stack # <<>>
    /\ stack[Len(stack)].kids = <<>>
    /\ stack' = SubSeq(stack, 1, Len(stack) - 1)
    /\ UNCHANGED <<heap, heap0, arg, pc, todo, out, log, ret, input, parser>>

\* The outermost visit returns what its handler returned.
VisitDone ==
    /\ pc = "visit"
    /\ stack = <<>>
    /\ pc' = "done"
    /\ ret' = IF MethodName(heap[arg]) \in visitor.handlers
              THEN [k |-> "handler", v |-> <<arg>>]
              ELSE [k |-> "node", v |-> <<arg>>]
    /\ UNCHANGED <<heap, heap0, arg, todo, out, stack, log, input, parser>>

NextVisit == VisitCall \/ VisitChild \/ VisitReturn \/ VisitDone

SpecVisit == InitVisit /\ [][NextVisit]_vars

LogNodes == {log[i][2] : i \in 1..Len(log)}
FirstCall(n) == CHOOSE i \in 1..Len(log) :
    log[i][2] = n /\ \A j \in 1..(i - 1) : log[j][2] # n
Calls(n) == {i \in 1..Len(log) : log[i][2] = n}
Registered(n) == ("visit_" \o heap[n].cls) \in visitor.handlers

\* C9: visit calls the handler registered under the node's exact class name
\* if there is one and generic_visit otherwise, never a handler of the base
\* name; generic_visit visits each child of iter_child_nodes once, in that
\* order, and returns the node with nothing changed; under a node given to a
\* type-specific handler, children are visited only if the handler recurses.
C9_VisitDispatch ==
    pc = "done" =>
        /\ log # <<>> /\ log[1][2] = arg
        /\ \A i \in 1..Len(log) :
             \/ log[i][1] = "generic_visit"
             \/ /\ log[i][1] \in visitor.handlers
                /\ log[i][1] = "visit_" \o heap[log[i][2]].cls
        /\ \A n \in LogNodes :
             /\ Registered(n) => log[FirstCall(n)][1] = "visit_" \o heap[n].cls
             /\ ~Registered(n) => log[FirstCall(n)][1] = "generic_visit"
             /\ Cardinality(Calls(n)) =
                    IF Registered(n) /\ visitor.recurse THEN 2 ELSE 1
        /\ \A i \in 1..Len(log) :
             LET kids == iter_child_nodes(heap[log[i][2]]) IN
             IF log[i][1] = "generic_visit"
             THEN /\ \A k \in 1..Len(kids) :
                        kids[k] \in LogNodes /\ FirstCall(kids[k]) > i
                  /\ \A k, l \in 1..Len(kids) :
                        k < l => FirstCall(kids[k]) < FirstCall(kids[l])
             ELSE visitor.recurse \/ \A k \in 1..Len(kids) : kids[k] \notin LogNodes
        /\ heap = heap0
        /\ ~Registered(arg) => ret = [k |-> "node", v |-> <<arg>>]

\* A Pass root handled by generic_visit although a handler for its base name
\* stmt is registered, above an Expr child whose handler does not recurse
\* and whose own child is not visited.
C9_Witness ==
    /\ pc = "done"
    /\ visitor.handlers = {"visit_Expr", "visit_stmt"} /\ ~visitor.recurse
    /\ heap[arg].cls = "Pass"
    /\ Len(log) = 2
    /\ log[2][1] = "visit_Expr"
    /\ iter_child_nodes(heap[log[2][2]]) # <<>>

(***************************************************************************)
(* NodeTransformer.generic_visit.  A handler returns its argument, None,   *)
(* or a list of the same two replacement nodes (the last two nodes of the  *)
(* heap).  A result is a value, None or the exception raised.              *)
(***************************************************************************)
TNone == [k |-> "None", items |-> <<>>]
TRaise(e) == [k |-> "raise", items |-> <<e>>]
Replacements(h) == <<Len(h) - 1, Len(h)>>

\* obj.__class__.__name__ of a value
ClassName(h, x) == IF x.k = "list" THEN "list" ELSE h[x.items[1]].cls

\* A visit_<name> method of the transformer, called on x.
Handler(h, v, x) ==
    IF v.returns = "two" THEN ListVal(Replacements(h))
    ELSE IF v.returns = "none" THEN TNone
    ELSE x

RECURSIVE TGenericVisit(_, _, _)
RECURSIVE RewriteNames(_, _, _, _)

\* NodeVisitor.visit, inherited
TVisit(h, v, x) ==
    IF ("visit_" \o ClassName(h, x)) \in v.handlers
    THEN [heap |-> h, r |-> Handler(h, v, x)]
    ELSE TGenericVisit(h, v, x)

\* for value in old: ... over the elements left; every AST element visits
\* old, the list itself.
RECURSIVE RewriteList(_, _, _, _, _)
RewriteList(h, v, old, left, new) ==
    IF left = <<>> THEN [heap |-> h, raised |-> FALSE, new |-> new]
    ELSE IF isinstance_AST(Head(left))
    THEN LET res == TVisit(h, v, old) IN
         IF res.r.k = "raise"
         THEN [heap |-> res.heap, raised |-> TRUE, new |-> new]
         ELSE IF res.r.k = "None"
         THEN RewriteList(res.heap, v, old, Tail(left), new)
         ELSE IF res.r.k = "list"
         THEN RewriteList(res.heap, v, old, Tail(left), new \o res.r.items)
         ELSE RewriteList(res.heap, v, old, Tail(left), new \o res.r.items)
    ELSE RewriteList(h, v, old, Tail(left), Append(new, Head(left)))

\* One of the two loops of generic_visit, over the names left.
RewriteNames(h, v, n, names) ==
    IF names = <<>> THEN [heap |-> h, raised |-> FALSE]
    ELSE LET name == Head(names) IN
    IF name \notin DOMAIN h[n].vals THEN RewriteNames(h, v, n, Tail(names))
    ELSE LET old == h[n].vals[name] IN
    IF old.k = "list"
    THEN LET res == RewriteList(h, v, old, old.items, <<>>) IN
         IF res.raised THEN [heap |-> res.heap, raised |-> TRUE]
         ELSE RewriteNames([res.heap EXCEPT ![n].vals[name] = ListVal(res.new)],
                           v, n, Tail(names))
    ELSE IF old.k = "node"
    THEN LET res == TVisit(h, v, old) IN
         IF res.r.k = "raise" THEN [heap |-> res.heap, raised |-> TRUE]
         ELSE IF res.r.k = "None"
         THEN RewriteNames(
                [res.heap EXCEPT ![n].vals =
                    [a \in (DOMAIN res.heap[n].vals) \ {name} |-> res.heap[n].vals[a]]],
                v, n, Tail(names))
         ELSE RewriteNames([res.heap EXCEPT ![n].vals[name] = res.r],
                           v, n, Tail(names))
    ELSE RewriteNames(h, v, n, Tail(names))

\* generic_visit(node); on a list, iter_attribs reads list._attribs.
TGenericVisit(h, v, x) ==
    IF x.k = "list" THEN [heap |-> h, r |-> TRaise("AttributeError")]
    ELSE LET n == x.items[1]
             a == RewriteNames(h, v, n, h[n]._attribs)
         IN IF a.raised THEN [heap |-> a.heap, r |-> TRaise("AttributeError")]
            ELSE LET f == RewriteNames(a.heap, v, n, a.heap[n]._fields)
                 IN IF f.raised
                    THEN [heap |-> f.heap, r |-> TRaise("AttributeError")]
                    ELSE [heap |-> f.heap, r |-> x]

TransformHeaps ==
    UNION {{WithClasses(h, c) \o <<AST("Pass", <<>>, <<>>, <<>>),
                                   AST("Pass", <<>>, <<>>, <<>>)>> :
                <<h, c>> \in Trees(n) \X [1..n -> Classes]} :
            n \in 1..MaxVisitNodes}

InitTransform ==
    /\ heap \in TransformHeaps
    /\ heap0 = heap
    /\ pc = "idle"
    /\ Idle
    /\ delta = 0 /\ source = <<>> /\ padded = FALSE
    /\ \E hs \in SUBSET {"visit_Expr", "visit_Pass", "visit_list"},
          r \in {"same", "none", "two"} :
        visitor = [handlers |-> hs, recurse |-> FALSE, returns |-> r]

\* transformer.generic_visit(node)
TransformGenericVisit ==
    /\ pc = "idle"
    /\ LET res == TGenericVisit(heap, visitor, NodeVal(arg)) IN
        /\ heap' = res.heap
        /\ ret' = [k |-> res.r.k, v |-> res.r.items]
    /\ pc' = "generic_visit"
    /\ UNCHANGED <<heap0, arg, todo, out, stack, log, input, parser>>

\* transformer.visit(node)
TransformVisit ==
    /\ pc = "idle"
    /\ LET res == TVisit(heap, visitor, NodeVal(arg)) IN
        /\ heap' = res.heap
        /\ ret' = [k |-> res.r.k, v |-> res.r.items]
    /\ pc' = "visit"
    /\ UNCHANGED <<heap0, arg, todo, out, stack, log, input, parser>>

NextTransform == TransformGenericVisit \/ TransformVisit

SpecTransform == InitTransform /\ [][NextTransform]_vars

\* The list with every node element whose class has a handler replaced by
\* the two replacement nodes.
RECURSIVE Flattened(_, _, _)
Flattened(h, v, items) ==
    IF items = <<>> THEN <<>>
    ELSE (IF isinstance_AST(Head(items))
          THEN Replacements(h) ELSE <<Head(items)>>) \o Flattened(h, v, Tail(items))

\* C1: generic_visit on a node whose body holds nodes of classes whose handler
\* returns two replacement nodes returns normally, with each such element
\* replaced in place by the two nodes, the other elements in their order and
\* the length grown by one per replaced element.
C1_Flattening ==
    (/\ pc = "generic_visit"
     /\ visitor.returns = "two"
     /\ visitor.handlers = {"visit_Expr", "visit_Pass"}
     /\ heap0[arg].vals["body"].items # <<>>)
    => /\ ret.k = "node"
       /\ heap[arg].vals["body"] =
            ListVal(Flattened(heap0, visitor, heap0[arg].vals["body"].items))
       /\ Len(heap[arg].vals["body"].items) =
            Len(heap0[arg].vals["body"].items)
            + Len(SelectSeq(heap0[arg].vals["body"].items, isinstance_AST))

(***************************************************************************)
(* ParseAsdl.  The text is a sequence of tokens, a token a sequence of     *)
(* characters: a word (\w+), a punctuation mark, the comment mark -- or a  *)
(* line break.  Tokens of one line are separated by blanks, except that a  *)
(* marker ?, * or + follows its type name directly.                        *)
(***************************************************************************)
Upper == {"A", "B", "C", "D", "E", "F", "G", "H", "I", "J", "K", "L", "M",
          "N", "O", "P", "Q", "R", "S", "T", "U", "V", "W", "X", "Y", "Z"}
\* \w
WordChars ==
    Upper \cup {"a", "b", "c", "d", "e", "f", "g", "h", "i", "j", "k", "l", "m",
                "n", "o", "p", "q", "r", "s", "t", "u", "v", "w", "x", "y", "z"}
          \cup {"0", "1", "2", "3", "4", "5", "6", "7", "8", "9"} \cup {"_"}
Markers == {<<"?">>, <<"*">>, <<"+">>}
NL == <<"\n">>

kw_module == <<"m", "o", "d", "u", "l", "e">>
kw_attributes == <<"a", "t", "t", "r", "i", "b", "u", "t", "e", "s">>

\* The keys of _default_types, and the type names they stand for.
_default_types ==
    [name \in {<<"i", "d", "e", "n", "t">>, <<"i", "n", "t">>,
               <<"c", "h", "a", "r">>, <<"s", "t", "r", "i", "n", "g">>,
               <<"s", "t", "r">>, <<"b", "o", "o", "l", "e", "a", "n">>,
               <<"b", "o", "o", "l">>, <<"f", "l", "o", "a", "t">>} |->
        IF name \in {<<"i", "d", "e", "n", "t">>, <<"s", "t", "r", "i", "n", "g">>,
                     <<"s", "t", "r">>} THEN "str"
        ELSE IF name \in {<<"i", "n", "t">>, <<"c", "h", "a", "r">>} THEN "int"
        ELSE IF name = <<"f", "l", "o", "a", "t">> THEN "float"
        ELSE "bool"]

\* \w+ matches the whole token
IsWord(tok) == tok # <<>> /\ \A i \in 1..Len(tok) : tok[i] \in WordChars
\* str.isupper() of one character
isupper(c) == c \in Upper

\* \s* at the head of the text
RECURSIVE SkipWs(_)
SkipWs(raw) ==
    IF raw # <<>> /\ Head(raw) = NL THEN SkipWs(Tail(raw)) ELSE raw

\* The next token after \s*, or <<>> at the end of the text.
Peek(raw) == IF SkipWs(raw) = <<>> THEN <<>> ELSE Head(SkipWs(raw))
\* The text after \s*, one token and \s*
Advance(raw) == SkipWs(Tail(SkipWs(raw)))

\* The one element of a set: {F(c) : c \in {r}} computes the result r of a
\* call once and continues with it.
Only(S) == CHOOSE x \in S : TRUE

Ok(val, rest) == [ok |-> TRUE, val |-> val, rest |-> rest, err |-> <<>>]
Fail(err) == [ok |-> FALSE, val |-> <<>>, rest |-> <<>>, err |-> err]

Field(type_name, field_name, can_none, can_many) ==
    [type_name |-> type_name, field_name |-> field_name,
     can_none |-> can_none, can_many |-> can_many]
Constructor(ctor_name, fields) == [ctor_name |-> ctor_name, fields |-> fields]
ProductType(fields) ==
    [kind |-> "ProductType", fields |-> fields, ctors |-> <<>>, attribs |-> <<>>]
SumType(ctors, attribs) ==
    [kind |-> "SumType", fields |-> <<>>, ctors |-> ctors, attribs |-> attribs]
TypeDef(type_name, type_def) == [type_name |-> type_name, type_def |-> type_def]
Module(mod_name, typedefs) == [mod_name |-> mod_name, typedefs |-> typedefs]

\* getField: ^\s*(\w+)([\?\*\+])?\s+(\w+)\s*
getField(raw) ==
    LET r1 == SkipWs(raw)
        marked == Len(r1) >= 2 /\ r1[2] \in Markers
        symbol == IF marked THEN r1[2][1] ELSE ""
        r2 == IF marked THEN Tail(Tail(r1)) ELSE Tail(r1)
    IN IF r1 = <<>> \/ ~IsWord(r1[1]) \/ ~IsWord(Peek(r2))
       THEN Fail(<<"expected field">>)
       ELSE Ok(Field(r1[1], Peek(r2), symbol \in {"?", "*"}, symbol \in {"*", "+"}),
               Advance(r2))

\* The loop of getFields and its closing parenthesis.
RECURSIVE FieldsLoop(_, _)
FieldsLoop(raw, fields) ==
    Only({IF ~f.ok THEN f
          ELSE IF Peek(f.rest) = <<",">>
          THEN FieldsLoop(Advance(f.rest), Append(fields, f.val))
          ELSE IF Peek(f.rest) = <<")">>
          THEN Ok(Append(fields, f.val), Advance(f.rest))
          ELSE Fail(<<"expected right parenthesis to close field list.">>) :
          f \in {getField(raw)}})

getFields(raw) ==
    IF Peek(raw) # <<"(">>
    THEN Fail(<<"expected left parenthesis to begin field list.">>)
    ELSE FieldsLoop(Advance(raw), <<>>)

\* if not ctor_name[0].isupper(): raise
CtorNameOk_any(ctor_name) == TRUE

CtorNameOk(ctor_name) == isupper(ctor_name[1])

getConstructor(raw) ==
    IF ~IsWord(Peek(raw)) THEN Fail(<<"expected name in constructor">>)
    ELSE LET ctor_name == Peek(raw)
             r == Advance(raw)
         IN IF ~CtorNameOk(ctor_name)
            THEN Fail(<<"constructor name must start with an uppercase later">>)
            ELSE IF Peek(r) # <<"(">> THEN Ok(Constructor(ctor_name, <<>>), r)
            ELSE Only({IF fs.ok THEN Ok(Constructor(ctor_name, fs.val), fs.rest)
                       ELSE Fail(<<"in ctor of">> \o fs.err) :
                       fs \in {getFields(r)}})

\* ^\s*attributes\s* matches a word that starts with "attributes"; what is
\* left of the word stays in the text.
HasAttributes(raw) ==
    /\ Len(Peek(raw)) >= Len(kw_attributes)
    /\ SubSeq(Peek(raw), 1, Len(kw_attributes)) = kw_attributes
AfterAttributes(raw) ==
    IF Peek(raw) = kw_attributes THEN Advance(raw)
    ELSE <<SubSeq(Peek(raw), Len(kw_attributes) + 1, Len(Peek(raw)))>>
         \o Tail(SkipWs(raw))

RECURSIVE CtorsLoop(_, _)
CtorsLoop(raw, ctors) ==
    Only({IF ~c.ok THEN c
        ELSE IF Peek(c.rest) = <<"|">>
        THEN CtorsLoop(Advance(c.rest), Append(ctors, c.val))
        ELSE Ok(Append(ctors, c.val), c.rest) : c \in {getConstructor(raw)}})

getSumType(raw) ==
    Only({IF ~cs.ok THEN cs
          ELSE IF HasAttributes(cs.rest)
          THEN Only({IF fs.ok THEN Ok(SumType(cs.val, fs.val), fs.rest) ELSE fs :
                     fs \in {getFields(AfterAttributes(cs.rest))}})
          ELSE Ok(SumType(cs.val, <<>>), cs.rest) :
          cs \in {CtorsLoop(raw, <<>>)}})

\* re.sub(r"\-\-(.*)$", "", ...): a comment runs to the end of its line
RECURSIVE StripComments(_, _)
StripComments(toks, in_comment) ==
    IF toks = <<>> THEN <<>>
    ELSE IF Head(toks) = NL THEN <<NL>> \o StripComments(Tail(toks), FALSE)
    ELSE IF in_comment \/ Head(toks) = <<"-", "-">>
    THEN StripComments(Tail(toks), TRUE)
    ELSE <<Head(toks)>> \o StripComments(Tail(toks), FALSE)

\* \s*(attributes\s*)?$ after the closing brace; $ also matches at the end
\* of a line.
TailMatches(r) ==
    \/ r = <<>>
    \/ r[1] = NL
    \/ r[1] = kw_attributes /\ (Len(r) = 1 \/ r[2] = NL)

\* ^\s*module\s+(\w+)\s*\{\s*(.*)\s*\}\s*(attributes\s*)?$ : the closing
\* braces the greedy (.*) can stop before.
Closers(toks) ==
    {j \in 1..Len(toks) :
        toks[j] = <<"}">> /\ TailMatches(SubSeq(toks, j + 1, Len(toks)))}

HeaderMatch(text) ==
    LET toks == CHOOSE t \in {text} : TRUE
        r == SkipWs(toks)
        afterName == Advance(Tail(r))
        body == Advance(afterName)
        js == Closers(body)
        last == CHOOSE j \in js : \A i \in js : i <= j
    IN IF r = <<>> \/ r[1] # kw_module \/ ~IsWord(Peek(Tail(r)))
          \/ Peek(afterName) # <<"{">> \/ js = {}
       THEN Fail(<<"missing module statement">>)
       ELSE Ok(Peek(Tail(r)), SubSeq(body, 1, last - 1))

\* Lines 19-26 and 82-84: the header is matched, the loop is set up.
ParseHeader ==
    /\ pc = "idle"
    /\ \E m \in {HeaderMatch(StripComments(source, FALSE))} :
        IF m.ok
        THEN /\ parser' = [parser EXCEPT !.mod_name = m.val, !.mod_raw = m.rest]
             /\ pc' = "body"
             /\ ret' = ret
        ELSE /\ ret' = [k |-> "raise", v |-> m.err]
             /\ pc' = "failed"
             /\ parser' = parser
    /\ UNCHANGED <<heap, heap0, arg, todo, out, stack, log, input>>

\* type_name == "AST" or type_name in _default_types
IsReserved(type_name) ==
    type_name = <<"A", "S", "T">> \/ type_name \in DOMAIN _default_types

\* One turn of the loop of lines 86-104.
getProductType(raw) ==
    Only({IF fs.ok THEN Ok(ProductType(fs.val), fs.rest) ELSE fs :
          fs \in {getFields(raw)}})

TypeDefStep(p) ==
    LET raw == p.mod_raw
        type_name == Peek(raw)
        r == Advance(Advance(raw))
    IN IF ~IsWord(type_name) \/ Peek(Advance(raw)) # <<"=">>
       THEN Fail(<<"expected type definition">>)
       ELSE IF type_name \in p.defined
       THEN Fail(<<"cannot define type twice.">>)
       ELSE IF IsReserved(type_name)
       THEN Fail(<<"in typedef of", "cannot redefine basic type.">>)
       ELSE Only({IF ~type.ok THEN Fail(<<"in typedef of">> \o type.err)
                  ELSE Ok([p EXCEPT !.mod_raw = type.rest,
                                    !.defined = p.defined \cup {type_name},
                                    !.mod_body = Append(p.mod_body,
                                                    TypeDef(type_name, type.val))],
                          type.rest) :
                  type \in {IF Peek(r) = <<"(">> THEN getProductType(r)
                            ELSE getSumType(r)}})

ParseTypeDef ==
    /\ pc = "body"
    /\ SkipWs(parser.mod_raw) # <<>>
    /\ \E t \in {TypeDefStep(parser)} :
        IF t.ok
        THEN /\ parser' = t.val
             /\ UNCHANGED <<pc, ret>>
        ELSE /\ ret' = [k |-> "raise", v |-> t.err]
             /\ pc' = "failed"
             /\ parser' = parser
    /\ UNCHANGED <<heap, heap0, arg, todo, out, stack, log, input>>

\* return Module(mod_name, mod_body)
ParseReturn ==
    /\ pc = "body"
    /\ SkipWs(parser.mod_raw) = <<>>
    /\ ret' = [k |-> "Module", v |-> Module(parser.mod_name, parser.mod_body)]
    /\ pc' = "parsed"
    /\ UNCHANGED <<heap, heap0, arg, todo, out, stack, log, input, parser>>

(***************************************************************************)
(* AsdlToPy.  The generated text is modelled as the sequence of the class  *)
(* statements it holds: name, parent, and either pass or an __init__ with  *)
(* its parameters, its super().__init__ call, the tuple it stores in       *)
(* _attribs or _fields, and its assignments.                               *)
(***************************************************************************)
RECURSIVE ToStr(_)
ToStr(chars) == IF chars = <<>> THEN "" ELSE Head(chars) \o ToStr(Tail(chars))

GetTypeName(name) ==
    IF name \in DOMAIN _default_types THEN _default_types[name]
    ELSE "'" \o ToStr(name) \o "'"

TypeText(field) ==
    IF field.can_many THEN "list[" \o GetTypeName(field.type_name) \o "]"
    ELSE IF field.can_none THEN GetTypeName(field.type_name) \o " | None"
    ELSE GetTypeName(field.type_name)

ToParam(field) == [name |-> ToStr(field.field_name), type |-> TypeText(field)]
ToAssign(field) == [name |-> ToStr(field.field_name), type |-> TypeText(field)]

FieldName(field) == ToStr(field.field_name)
\* ", ".join(map(..., fields)), as the sequence of the parts
Params(fields) == [i \in 1..Len(fields) |-> ToParam(fields[i])]
Assignments(fields) == [i \in 1..Len(fields) |-> ToAssign(fields[i])]
FieldNames(fields) == [i \in 1..Len(fields) |-> FieldName(fields[i])]

PassClass(name, parent) ==
    [name |-> name, parent |-> parent, pass |-> TRUE, params |-> <<>>,
     superctor |-> <<>>, sets |-> "", names |-> <<>>, assignments |-> <<>>]

GenAbstractClass(name, attribs) ==
    IF Len(attribs) = 0 THEN PassClass(name, "AST")
    ELSE [name |-> name, parent |-> "AST", pass |-> FALSE,
          params |-> Params(attribs),
          superctor |-> <<>>,
          sets |-> "_attribs", names |-> FieldNames(attribs),
          assignments |-> Assignments(attribs)]

GenDataClass(name, fields, parent, parent_attribs) ==
    IF Len(fields) = 0 THEN PassClass(name, parent)
    ELSE [name |-> name, parent |-> parent, pass |-> FALSE,
          params |-> IF Len(parent_attribs) > 0
                     THEN Params(parent_attribs) \o Params(fields)
                     ELSE Params(fields),
          superctor |-> IF Len(parent_attribs) > 0
                        THEN <<FieldNames(parent_attribs)>> ELSE <<>>,
          sets |-> "_fields", names |-> FieldNames(fields),
          assignments |-> Assignments(fields)]

\* The classes of one typedef, in the order they are written.
TypeDefClasses(typedef) ==
    LET name == ToStr(typedef.type_name)
        def == typedef.type_def
    IN IF def.kind = "ProductType"
       THEN <<GenDataClass(name, def.fields, "AST", <<>>)>>
       ELSE <<GenAbstractClass(name, def.attribs)>>
            \o [i \in 1..Len(def.ctors) |->
                  GenDataClass(ToStr(def.ctors[i].ctor_name), def.ctors[i].fields,
                               name, def.attribs)]

\* for typedef in asdl.typedefs: ...
RECURSIVE GenClasses(_)
GenClasses(typedefs) ==
    IF typedefs = <<>> THEN <<>>
    ELSE TypeDefClasses(Head(typedefs)) \o GenClasses(Tail(typedefs))

\* The position of the class of constructor ci (0: the type's own class) of
\* typedef ti among the classes.
ClassIndex(typedefs, ti, ci) ==
    Len(GenClasses(SubSeq(typedefs, 1, ti - 1))) + 1 + ci

(***************************************************************************)
(* The generated classes as Python runs them.  A class statement binds its *)
(* name when it runs, so the parent of class i is the latest class of that *)
(* name before i, or the class AST of the preamble (0).                    *)
(***************************************************************************)
ParentIdx(classes, i) ==
    LET js == {j \in 1..(i - 1) : classes[j].name = classes[i].parent}
    IN IF js = {} THEN 0 ELSE CHOOSE j \in js : \A k \in js : k <= j

\* The class whose __init__ an instance of class i runs (0: the __init__ of
\* the dataclass AST, whose parameters all have defaults).
RECURSIVE InitOwner(_, _)
InitOwner(classes, i) ==
    IF i = 0 THEN 0
    ELSE IF ~classes[i].pass THEN i
    ELSE InitOwner(classes, ParentIdx(classes, i))

\* The parameters a call of class i must give, in order.
InitParams(classes, i) ==
    LET o == InitOwner(classes, i)
    IN IF o = 0 THEN <<>> ELSE [k \in 1..Len(classes[o].params) |->
                                    classes[o].params[k].name]

\* self.<name> = <value>
SetAttr(node, name, value) ==
    IF name \in Coords THEN [node EXCEPT ![name] = value]
    ELSE [node EXCEPT !.vals =
            [a \in (DOMAIN node.vals) \cup {name} |->
                IF a = name THEN Scalar ELSE node.vals[a]]]

RECURSIVE Assign(_, _, _)
Assign(node, names, env) ==
    IF names = <<>> THEN node
    ELSE Assign(SetAttr(node, Head(names), env[Head(names)]), Tail(names), env)

\* __init__ of class o run on node with the positional arguments args.
RECURSIVE RunInit(_, _, _, _)
RunInit(classes, o, node, args) ==
    IF o = 0 THEN node
    ELSE LET c == classes[o]
             env == [name \in {c.params[k].name : k \in 1..Len(c.params)} |->
                        args[CHOOSE k \in 1..Len(c.params) : c.params[k].name = name]]
             base == IF c.superctor = <<>> THEN node
                     ELSE RunInit(classes,
                                  InitOwner(classes, ParentIdx(classes, o)), node,
                                  [k \in 1..Len(c.superctor[1]) |->
                                      env[c.superctor[1][k]]])
             named == IF c.sets = "_attribs"
                      THEN [base EXCEPT !._attribs = c.names]
                      ELSE [base EXCEPT !._fields = c.names]
         IN Assign(named, [k \in 1..Len(c.assignments) |-> c.assignments[k].name],
                   env)

\* A function definition with a parameter named twice is a SyntaxError:
\* the generated text does not load.
Loads(classes) ==
    \A i \in 1..Len(classes) : \A k, l \in 1..Len(classes[i].params) :
        classes[i].params[k].name = classes[i].params[l].name => k = l

\* cls(1, 2, ..) with as many arguments as the class requires
Construct(classes, i) ==
    LET params == InitParams(classes, i)
    IN RunInit(classes, InitOwner(classes, i),
               AST(classes[i].name, <<>>, <<>>, <<>>),
               [k \in 1..Len(params) |-> k])

(***************************************************************************)
(* The schema texts: the header, up to MaxTypeDefs of the pieces below,    *)
(* the closing brace and one of three endings.                             *)
(***************************************************************************)
W_int == <<"i", "n", "t">>
W_Ctor == <<"C", "t", "o", "r">>
IntX == <<<<"(">>, W_int, <<"x">>, <<")">>>>
Pieces ==
    {<<<<"A">>, <<"=">>>> \o IntX,
     <<<<"B">>, <<"=">>>> \o IntX,
     <<<<"A">>, <<"=">>, <<"c", "t", "o", "r">>>> \o IntX,
     <<<<"A", "S", "T">>, <<"=">>>> \o IntX,
     <<W_int, <<"=">>, W_Ctor>>,
     <<<<"s", "t", "m", "t">>, <<"=">>, <<"E", "x", "p", "r">>, <<"(">>, W_int,
       <<"v", "a", "l", "u", "e">>, <<")">>, <<"|">>, <<"P", "a", "s", "s">>,
       kw_attributes, <<"(">>, W_int, <<"l", "i", "n", "e", "n", "o">>, <<")">>>>,
     <<<<"B">>, <<"=">>, W_Ctor, <<"|">>, <<"D">>, <<"(">>, <<"A">>, <<"*">>, <<"x">>,
       <<",">>, W_int, <<"?">>, <<"y">>, <<")">>>>,
     <<<<"S">>, <<"=">>, <<"S">>, <<"(">>, W_int, <<"+">>, <<"x">>, <<")">>, <<"|">>,
       <<"P">>, kw_attributes, <<"(">>, W_int, <<"y">>, <<")">>>>,
     <<<<"D">>, <<"=">>, W_Ctor>> \o IntX \o <<kw_attributes>> \o IntX,
     <<<<"-", "-">>, <<"A">>, <<"=">>, <<"c", "t", "o", "r">>, NL>>,
     <<<<"B">>, <<"=">>, <<"(">>, W_int, <<"x">>>>}
Endings == {<<>>, <<kw_attributes>>, <<NL, <<"A">>, <<"=">>, <<"c", "t", "o", "r">>>>}

RECURSIVE Flatten(_)
Flatten(seqs) == IF seqs = <<>> THEN <<>> ELSE Head(seqs) \o Flatten(Tail(seqs))

Texts ==
    {<<kw_module, <<"M">>, <<"{">>>> \o Flatten(ps) \o <<<<"}">>>> \o e :
        <<ps, e>> \in (UNION {[1..n -> Pieces] : n \in 0..MaxTypeDefs}) \X Endings}

InitAsdl ==
    /\ heap = <<>>
    /\ heap0 = heap
    /\ pc = "idle"
    /\ Idle
    /\ visitor = NoVisitor /\ delta = 0 /\ padded = FALSE
    /\ source \in Texts

\* Lines 223-238: the classes are written, the text is returned.
Generate ==
    /\ pc = "parsed"
    /\ parser' = [parser EXCEPT !.classes = GenClasses(ret.v.typedefs)]
    /\ pc' = "generated"
    /\ UNCHANGED <<heap, heap0, arg, todo, out, stack, log, ret, input>>

\* The generated text is loaded and the class of a constructor is called.
Instantiate ==
    /\ pc = "generated"
    /\ \E ti \in 1..Len(parser.mod_body) :
        \E ci \in 0..Len(parser.mod_body[ti].type_def.ctors) :
            /\ out' = <<ti, ci>>
            /\ IF Loads(parser.classes)
               THEN /\ heap' = <<Construct(parser.classes,
                                           ClassIndex(parser.mod_body, ti, ci))>>
                    /\ pc' = "instance"
               ELSE /\ heap' = heap
                    /\ pc' = "SyntaxError"
    /\ UNCHANGED <<heap0, arg, todo, stack, log, ret, input, parser>>

NextAsdl == ParseHeader \/ ParseTypeDef \/ ParseReturn \/ Generate \/ Instantiate

SpecAsdl == InitAsdl /\ [][NextAsdl]_vars

(***************************************************************************)
(* The semantic rules, read off the text: the type names are the words     *)
(* before an "=", the constructor names the words after an "=" or a "|".   *)
(***************************************************************************)
Body(text) == HeaderMatch(StripComments(text, FALSE)).rest
TypeHeads(body) == {i \in 1..(Len(body) - 1) : body[i + 1] = <<"=">>}
CtorHeads(body) ==
    {i \in 2..Len(body) : body[i - 1] \in {<<"=">>, <<"|">>} /\ IsWord(body[i])}
PrimitiveNames ==
    {<<"i", "d", "e", "n", "t">>, <<"i", "n", "t">>, <<"c", "h", "a", "r">>,
     <<"s", "t", "r", "i", "n", "g">>, <<"s", "t", "r">>,
     <<"b", "o", "o", "l", "e", "a", "n">>, <<"b", "o", "o", "l">>,
     <<"f", "l", "o", "a", "t">>}
BreaksRule(body) ==
    \/ \E i, j \in TypeHeads(body) : i # j /\ body[i] = body[j]
    \/ \E i \in TypeHeads(body) : body[i] \in PrimitiveNames \cup {<<"A", "S", "T">>}
    \/ \E i \in CtorHeads(body) : body[i][1] \notin Upper

ObeysRules(module) ==
    LET tds == module.typedefs IN
    /\ \A i, j \in 1..Len(tds) : tds[i].type_name = tds[j].type_name => i = j
    /\ \A i \in 1..Len(tds) :
          /\ tds[i].type_name \notin PrimitiveNames \cup {<<"A", "S", "T">>}
          /\ \A c \in 1..Len(tds[i].type_def.ctors) :
                tds[i].type_def.ctors[c].ctor_name[1] \in Upper

Dup3 ==
    <<kw_module, <<"M">>, <<"{">>, <<"A">>, <<"=">>>> \o IntX
    \o <<<<"B">>, <<"=">>>> \o IntX \o <<<<"A">>, <<"=">>>> \o IntX \o <<<<"}">>>>
LowerCtor ==
    <<kw_module, <<"M">>, <<"{">>, <<"A">>, <<"=">>, <<"c", "t", "o", "r">>>>
    \o IntX \o <<<<"}">>>>

\* C7: a Module is returned only for a schema that obeys the rules: its type
\* names are pairwise distinct, none is AST or a primitive name, every
\* constructor name starts with an uppercase letter; a text that breaks a
\* rule (the two example texts among them) never gets a Module, and a failed
\* parse returns an error and nothing else.
C7_RulesEnforced ==
    /\ ret.k = "Module" => ObeysRules(ret.v)
    /\ (BreaksRule(Body(source)) \/ source \in {Dup3, LowerCtor})
          => pc \in {"idle", "body", "failed"} /\ ret.k # "Module"
    /\ pc = "failed" => ret.k = "raise" /\ parser.classes = <<>>

\* The parse of the text with A defined twice has failed on the second A,
\* after A and B were read.
C7_Witness ==
    /\ source = Dup3
    /\ pc = "failed"
    /\ ret.v = <<"cannot define type twice.">>
    /\ Len(parser.mod_body) = 2

Names(pairs) == [i \in 1..Len(pairs) |-> pairs[i][1]]

\* C8: the generated text loads, and for every constructor of a SumType the
\* class takes the SumType's attributes and then the constructor's fields,
\* in declared order; its instance shows exactly the attribute names through
\* iter_attribs and exactly the field names through iter_fields.
C8_ParamsAndNames ==
    /\ pc # "SyntaxError"
    /\ pc = "instance" /\ out[2] >= 1 =>
         LET def == ret.v.typedefs[out[1]].type_def
             attribs == FieldNames(def.attribs)
             fields == FieldNames(def.ctors[out[2]].fields)
             cls == ClassIndex(ret.v.typedefs, out[1], out[2])
         IN /\ InitParams(parser.classes, cls) = attribs \o fields
            /\ Names(iter_attribs(heap[1])) = attribs
            /\ Names(iter_fields(heap[1])) = fields

\* Every name of the schema is used once: no constructor is named like a
\* type or like another constructor, no field like an attribute.
PlainNames(module) ==
    LET tds == module.typedefs
        classes == GenClasses(tds)
    IN /\ \A i, j \in 1..Len(classes) : classes[i].name = classes[j].name => i = j
       /\ Loads(classes)

\* C8 for the example schema: Expr(lineno, value) shows attribute lineno and
\* field value, Pass(lineno) shows attribute lineno only; and the same for
\* every schema that uses each name once.
C8_PlainSchemas ==
    pc = "instance" /\ out[2] >= 1 /\ PlainNames(ret.v) =>
         LET def == ret.v.typedefs[out[1]].type_def
             attribs == FieldNames(def.attribs)
             fields == FieldNames(def.ctors[out[2]].fields)
             cls == ClassIndex(ret.v.typedefs, out[1], out[2])
         IN /\ InitParams(parser.classes, cls) = attribs \o fields
            /\ Names(iter_attribs(heap[1])) = attribs
            /\ Names(iter_fields(heap[1])) = fields
            /\ heap[1].cls = ToStr(def.ctors[out[2]].ctor_name)

\* An instance of Pass of the example schema.
C8_Witness ==
    /\ pc = "instance"
    /\ heap[1].cls = "Pass"
    /\ Names(iter_attribs(heap[1])) = <<"lineno">>
    /\ Names(iter_fields(heap[1])) = <<>>

====
